---- MODULE Spec2Model ----
(***************************************************************************)
(* Resume-wizard: the credential vault (lib/crypto: deriveKey,            *)
(* encryptText, decryptText) and the API-key lifecycle embedded in the    *)
(* Home component's event handlers.                                       *)
(*                                                                         *)
(* Conventions                                                             *)
(*  - a JavaScript string is a sequence of Unicode code points (the        *)
(*    strings considered are well formed: no lone surrogates);            *)
(*  - a byte buffer is a sequence of numbers 0..255;                       *)
(*  - base64 text is a sequence of symbols: 0..63 are the alphabet,        *)
(*    Pad is '=', BadSym is any character outside the alphabet;            *)
(*  - "T | null" is a sequence of length 0 or 1;                           *)
(*  - PBKDF2 and AES-GCM are ideal: the derived key is determined by, and  *)
(*    determines, (password bytes, salt); the authentication tag is        *)
(*    collision free (it is represented by the transcript it               *)
(*    authenticates).  Confidentiality is not part of the model.           *)
(*  - crypto.getRandomValues is an ideal generator: its k-th output        *)
(*    differs from every other output.                                    *)
(***************************************************************************)
EXTENDS Integers, Sequences, FiniteSets, TLC

(***************************************************************************)
(* Bounds of the model                                                     *)
(***************************************************************************)
MaxPlainLen == 2

MaxEncrypts == 2

MaxPending == 2

(***************************************************************************)
(* Program constants                                                       *)
(***************************************************************************)
SaltLen == 16

IvLen == 12

BOM == 65279

Replacement == 65533

Pad == 64

BadSym == 65

(***************************************************************************)
(* Code points used to build the strings of the model: 'A' (1 byte in      *)
(* UTF-8), e-acute (2 bytes), U+FEFF (3 bytes), an emoji (4 bytes).        *)
(***************************************************************************)
Chars == {65, 233, BOM, 128512}

RECURSIVE StringsUpTo(_)
StringsUpTo(n) ==
  IF n = 0 THEN {<<>>}
  ELSE LET S == StringsUpTo(n - 1)
       IN  S \cup {Append(s, c) : s \in {t \in S : Len(t) = n - 1}, c \in Chars}

(***************************************************************************)
(* TextEncoder.encode: UTF-8 bytes of a well-formed string                 *)
(***************************************************************************)
Utf8Char(c) ==
  IF c < 128 THEN <<c>>
  ELSE IF c < 2048 THEN <<192 + (c \div 64), 128 + (c % 64)>>
  ELSE IF c < 65536
       THEN <<224 + (c \div 4096), 128 + ((c \div 64) % 64), 128 + (c % 64)>>
  ELSE <<240 + (c \div 262144), 128 + ((c \div 4096) % 64),
         128 + ((c \div 64) % 64), 128 + (c % 64)>>

RECURSIVE encode(_)
encode(str) ==
  IF str = <<>> THEN <<>> ELSE Utf8Char(Head(str)) \o encode(Tail(str))

(***************************************************************************)
(* TextDecoder.decode with the default options (fatal: false,              *)
(* ignoreBOM: false): malformed input yields U+FFFD, and a leading U+FEFF  *)
(* of the decoded text is removed.                                         *)
(***************************************************************************)
IsCont(b) == b >= 128 /\ b <= 191

RECURSIVE Utf8Scan(_)
Utf8Scan(b) ==
  IF b = <<>> THEN <<>>
  ELSE LET h == Head(b) n == Len(b)
       IN  IF h < 128 THEN <<h>> \o Utf8Scan(Tail(b))
           ELSE IF h >= 194 /\ h <= 223 /\ n >= 2 /\ IsCont(b[2])
                THEN <<(h - 192) * 64 + (b[2] - 128)>>
                     \o Utf8Scan(SubSeq(b, 3, n))
           ELSE IF h >= 224 /\ h <= 239 /\ n >= 3 /\ IsCont(b[2]) /\ IsCont(b[3])
                   /\ (h - 224) * 4096 + (b[2] - 128) * 64 >= 2048
                   /\ ~ ((h - 224) * 4096 + (b[2] - 128) * 64 >= 55296
                         /\ (h - 224) * 4096 + (b[2] - 128) * 64 <= 57343)
                THEN <<(h - 224) * 4096 + (b[2] - 128) * 64 + (b[3] - 128)>>
                     \o Utf8Scan(SubSeq(b, 4, n))
           ELSE IF h >= 240 /\ h <= 244 /\ n >= 4
                   /\ IsCont(b[2]) /\ IsCont(b[3]) /\ IsCont(b[4])
                   /\ (h - 240) * 262144 + (b[2] - 128) * 4096 >= 65536
                   /\ (h - 240) * 262144 + (b[2] - 128) * 4096 <= 1114111
                THEN <<(h - 240) * 262144 + (b[2] - 128) * 4096
                       + (b[3] - 128) * 64 + (b[4] - 128)>>
                     \o Utf8Scan(SubSeq(b, 5, n))
           ELSE <<Replacement>> \o Utf8Scan(Tail(b))

decode(buf) ==
  LET s == Utf8Scan(buf)
  IN  IF s # <<>> /\ Head(s) = BOM THEN Tail(s) ELSE s

(***************************************************************************)
(* toBase64: btoa(String.fromCharCode(...bytes))                           *)
(***************************************************************************)
RECURSIVE toBase64(_)
toBase64(buf) ==
  LET n == Len(buf)
  IN  IF n = 0 THEN <<>>
      ELSE IF n = 1
           THEN <<buf[1] \div 4, (buf[1] % 4) * 16, Pad, Pad>>
      ELSE IF n = 2
           THEN <<buf[1] \div 4, (buf[1] % 4) * 16 + (buf[2] \div 16),
                  (buf[2] % 16) * 4, Pad>>
      ELSE <<buf[1] \div 4, (buf[1] % 4) * 16 + (buf[2] \div 16),
             (buf[2] % 16) * 4 + (buf[3] \div 64), buf[3] % 64>>
           \o toBase64(SubSeq(buf, 4, n))

(***************************************************************************)
(* fromBase64: atob (forgiving-base64 decode) followed by charCodeAt.      *)
(* atob throws InvalidCharacterError on text that is not base64.           *)
(***************************************************************************)
StripPad(b64) ==
  LET n == Len(b64)
  IN  IF n > 0 /\ n % 4 = 0 /\ b64[n] = Pad
      THEN IF b64[n - 1] = Pad THEN SubSeq(b64, 1, n - 2)
           ELSE SubSeq(b64, 1, n - 1)
      ELSE b64

RECURSIVE Sextets(_)
Sextets(s) ==
  LET n == Len(s)
  IN  IF n <= 1 THEN <<>>
      ELSE IF n = 2 THEN <<s[1] * 4 + (s[2] \div 16)>>
      ELSE IF n = 3
           THEN <<s[1] * 4 + (s[2] \div 16), (s[2] % 16) * 16 + (s[3] \div 4)>>
      ELSE <<s[1] * 4 + (s[2] \div 16), (s[2] % 16) * 16 + (s[3] \div 4),
             (s[3] % 4) * 64 + s[4]>>
           \o Sextets(SubSeq(s, 5, n))

fromBase64(b64) ==
  LET s == StripPad(b64)
  IN  IF Len(s) % 4 = 1 \/ \E i \in 1..Len(s) : s[i] > 63
      THEN [ok |-> FALSE, bytes |-> <<>>]
      ELSE [ok |-> TRUE, bytes |-> Sextets(s)]

(***************************************************************************)
(* crypto.getRandomValues(new Uint8Array(n)): the k-th output of the       *)
(* generator.                                                              *)
(***************************************************************************)
getRandomValues(k, n) == [i \in 1..n |-> (k + 7 * i) % 256]

(***************************************************************************)
(* deriveKey: PBKDF2/SHA-256 over (password bytes, salt); no check of the  *)
(* salt's length is made.                                                  *)
(***************************************************************************)
\* mutant: the password is not used in the derivation
deriveKey_IgnoresPassword(password, salt) == [pw |-> <<>>, salt |-> salt]

deriveKey(password, salt) == [pw |-> encode(password), salt |-> salt]

(***************************************************************************)
(* crypto.subtle.encrypt / decrypt with AES-GCM.                           *)
(***************************************************************************)
RECURSIVE SumBytes(_)
SumBytes(b) == IF b = <<>> THEN 0 ELSE Head(b) + SumBytes(Tail(b))

KeyStream(key, iv, i) ==
  (SumBytes(key.pw) + SumBytes(key.salt) + SumBytes(iv) + 31 * i) % 256

GcmTag(key, iv, ct) ==
  <<Len(key.pw)>> \o key.pw \o <<Len(key.salt)>> \o key.salt
    \o <<Len(iv)>> \o iv \o ct

subtleEncrypt(key, iv, pt) ==
  LET ct == [i \in 1..Len(pt) |-> (pt[i] + KeyStream(key, iv, i)) % 256]
  IN  ct \o GcmTag(key, iv, ct)

\* mutant: a cipher mode without authentication
subtleDecrypt_Unauthenticated(key, iv, data) ==
  LET fixed == 3 + Len(key.pw) + Len(key.salt) + Len(iv)
      n     == IF Len(data) >= fixed THEN (Len(data) - fixed) \div 2 ELSE 0
  IN  [ok |-> TRUE,
       bytes |-> [i \in 1..n |-> (data[i] + 256 - KeyStream(key, iv, i)) % 256]]

subtleDecrypt(key, iv, data) ==
  LET fixed == 3 + Len(key.pw) + Len(key.salt) + Len(iv)
      n     == (Len(data) - fixed) \div 2
      ct    == SubSeq(data, 1, n)
  IN  IF Len(data) >= fixed /\ (Len(data) - fixed) % 2 = 0
         /\ data = ct \o GcmTag(key, iv, ct)
      THEN [ok |-> TRUE,
            bytes |-> [i \in 1..n |-> (ct[i] + 256 - KeyStream(key, iv, i)) % 256]]
      ELSE [ok |-> FALSE, bytes |-> <<>>]

(***************************************************************************)
(* encryptText(plain, password); k is the number of values the random      *)
(* generator has produced so far.  The JSON text returned is represented   *)
(* by the object it denotes.                                               *)
(***************************************************************************)
\* mutant: the iv is a constant
encryptText_StaticIv(plain, password, k) ==
  LET salt   == getRandomValues(k, SaltLen)
      iv     == [i \in 1..IvLen |-> 0]
      key    == deriveKey(password, salt)
      cipher == subtleEncrypt(key, iv, encode(plain))
  IN  [v |-> 1, salt |-> toBase64(salt), iv |-> toBase64(iv),
       data |-> toBase64(cipher)]

encryptText(plain, password, k) ==
  LET salt   == getRandomValues(k, SaltLen)
      iv     == getRandomValues(k + 1, IvLen)
      key    == deriveKey(password, salt)
      cipher == subtleEncrypt(key, iv, encode(plain))
  IN  [v |-> 1, salt |-> toBase64(salt), iv |-> toBase64(iv),
       data |-> toBase64(cipher)]

(***************************************************************************)
(* decryptText(encrypted, password): the outcome is the string returned    *)
(* or the error thrown.                                                    *)
(***************************************************************************)
Returned(text) == [ok |-> TRUE, err |-> "", text |-> text]

Thrown(e) == [ok |-> FALSE, err |-> e, text |-> <<>>]

ErrInvalidPayload == "Invalid encrypted payload"

ErrAtob == "InvalidCharacterError"

ErrOperation == "OperationError"

ErrType == "TypeError"

ErrQuota == "QuotaExceededError"

\* the text "undefined", which atob receives for a property that is absent
Undefined == <<46, 39, 29, 30, 31, 34, 39, 30, 29>>

\* parsed[f]; the parsed object is a function from its property names
Field(parsed, f) == IF f \in DOMAIN parsed THEN parsed[f] ELSE Undefined

\* !parsed[f]: the property is absent or the empty string
Missing(parsed, f) == f \notin DOMAIN parsed \/ parsed[f] = <<>>

\* mutant: only the data property is validated
decryptText_ChecksDataOnly(parsed, password) ==
  IF Missing(parsed, "data")
  THEN Thrown(ErrInvalidPayload)
  ELSE LET salt == fromBase64(Field(parsed, "salt"))
           iv   == fromBase64(Field(parsed, "iv"))
           data == fromBase64(Field(parsed, "data"))
       IN  IF ~ salt.ok \/ ~ iv.ok \/ ~ data.ok THEN Thrown(ErrAtob)
           ELSE LET key      == deriveKey(password, salt.bytes)
                    plainBuf == subtleDecrypt(key, iv.bytes, data.bytes)
                IN  IF ~ plainBuf.ok THEN Thrown(ErrOperation)
                    ELSE Returned(decode(plainBuf.bytes))

decryptText(parsed, password) ==
  IF Missing(parsed, "salt") \/ Missing(parsed, "iv") \/ Missing(parsed, "data")
  THEN Thrown(ErrInvalidPayload)
  ELSE LET salt == fromBase64(Field(parsed, "salt"))
           iv   == fromBase64(Field(parsed, "iv"))
           data == fromBase64(Field(parsed, "data"))
       IN  IF ~ salt.ok \/ ~ iv.ok \/ ~ data.ok THEN Thrown(ErrAtob)
           ELSE LET key      == deriveKey(password, salt.bytes)
                    plainBuf == subtleDecrypt(key, iv.bytes, data.bytes)
                IN  IF ~ plainBuf.ok THEN Thrown(ErrOperation)
                    ELSE Returned(decode(plainBuf.bytes))

(***************************************************************************)
(* Inputs of the model                                                     *)
(***************************************************************************)
Plaintexts == StringsUpTo(MaxPlainLen)

Passphrases == {<<65>>, <<233, 65>>}

ApiKeys == {<<65>>, <<BOM, 65>>}

Files == {[name |-> "cv.tex", content |-> <<65>>]}

(***************************************************************************)
(* State.  Home component (React state, local storage, asynchronous        *)
(* operations in flight), followed by the state of the vault harness.      *)
(***************************************************************************)
VARIABLES
  storage,          \* localStorage: persistence, resume, enc
  persistEnabled,
  apiKey,
  encryptedApiKey,
  passphrase,
  isApiUnlocked,
  resumeFile,
  lastSavedResume,
  originalContent,
  pending,          \* asynchronous operations started and not yet completed
  rng,              \* number of values drawn from crypto.getRandomValues
  encLog,           \* history: salt and iv drawn by every encryptText call
  alertMsg,         \* alert() of the last step: <<text, detail>>, <<>> if none
  event,            \* history: the handler that ran last
  subtle,           \* crypto.subtle is defined (the page is a secure context)
  vpc, vPlain, vPass, vPayload, vTry, vOut, vField,
  vSalt, vKey,      \* vault harness: argument and result of deriveKey
  jobDescription, jobUrl, isProcessing, progress, extractedSkills,
  tailoredContent, showEditor,
  tpc,              \* handleTailorResume: the await the run is suspended at
  run,              \* handleTailorResume: values captured by the running call
  listResp,         \* history: outcome of listModels in the last run
  chosenModelName,  \* the model passed to getGenerativeModel in the last run
  activeTab, previewHtml, isRendering, renderError,
  renders,          \* ResumeEditor: renderPreview calls in flight
  downloaded,       \* text of the file saved by Download .tex
  clipboard         \* text written by Copy Code

homeVars == <<storage, persistEnabled, apiKey, encryptedApiKey, passphrase,
              isApiUnlocked, resumeFile, lastSavedResume, originalContent,
              pending, rng, encLog, alertMsg, event, subtle>>

vaultVars == <<vpc, vPlain, vPass, vPayload, vTry, vOut, vField, vSalt, vKey>>

tailorVars == <<jobDescription, jobUrl, isProcessing, progress,
                extractedSkills, tailoredContent, showEditor, tpc, run,
                listResp, chosenModelName>>

editorVars == <<activeTab, previewHtml, isRendering, renderError, renders,
                downloaded, clipboard>>

uiVars == <<tailorVars, editorVars>>

vars == <<homeVars, vaultVars, uiVars>>

(***************************************************************************)
(* localStorage                                                            *)
(***************************************************************************)
EmptyStorage == [persistence |-> "null", resume |-> <<>>, enc |-> <<>>]

NoOp == [kind |-> "none", enc |-> <<>>, res |-> Thrown(""), file |-> <<>>,
         persist |-> FALSE]

LogEntry(enc) == [salt |-> enc.salt, iv |-> enc.iv]

\* salt and iv of the encryptText call made after k values were drawn
Draws(k) == [salt |-> toBase64(getRandomValues(k, SaltLen)),
             iv   |-> toBase64(getRandomValues(k + 1, IvLen))]

(***************************************************************************)
(* Home: useState defaults followed by the mount effect (useEffect, [])    *)
(***************************************************************************)
MountState(store) ==
  LET shouldPersist == IF store.persistence = "null" THEN TRUE
                       ELSE store.persistence = "1"
      loadResume == shouldPersist /\ store.resume # <<>>
      useFile    == loadResume /\ store.resume[1].content # <<>>
      loadEnc    == shouldPersist /\ store.enc # <<>>
  IN  [persistEnabled  |-> shouldPersist,
       lastSavedResume |-> IF loadResume THEN store.resume ELSE <<>>,
       resumeFile      |-> IF useFile THEN store.resume ELSE <<>>,
       originalContent |-> IF useFile THEN store.resume[1].content ELSE <<>>,
       encryptedApiKey |-> IF loadEnc THEN store.enc ELSE <<>>,
       apiKey          |-> <<>>,
       isApiUnlocked   |-> FALSE,
       passphrase      |-> <<>>]

Mounted(store) ==
  LET m == MountState(store)
  IN  /\ persistEnabled' = m.persistEnabled
      /\ lastSavedResume' = m.lastSavedResume
      /\ resumeFile' = m.resumeFile
      /\ originalContent' = m.originalContent
      /\ encryptedApiKey' = m.encryptedApiKey
      /\ apiKey' = m.apiKey
      /\ isApiUnlocked' = m.isApiUnlocked
      /\ passphrase' = m.passphrase

VaultIdle ==
  /\ vpc = "idle" /\ vPlain = <<>> /\ vPass = <<>> /\ vPayload = <<>>
  /\ vTry = <<>> /\ vOut = <<>> /\ vField = "none"
  /\ vSalt = <<>> /\ vKey = <<>>

(***************************************************************************)
(* Home: useState defaults of the tailoring run; ResumeEditor is not       *)
(* mounted while showEditor is false.                                      *)
(***************************************************************************)
\* the settlement of an awaited provider call: the value the promise is
\* fulfilled with (a list of models or a text) or the value it rejects with
NoCall == [kind |-> "none", models |-> <<>>, text |-> <<>>, err |-> ""]

TailorIdle ==
  /\ jobDescription = <<>> /\ jobUrl = <<>>
  /\ isProcessing = FALSE /\ progress = 0
  /\ extractedSkills = <<>> /\ tailoredContent = <<>>
  /\ showEditor = FALSE
  /\ tpc = "idle" /\ run = <<>>
  /\ listResp = NoCall /\ chosenModelName = <<>>

EditorClosed ==
  /\ activeTab = "tailored" /\ previewHtml = <<>> /\ isRendering = FALSE
  /\ renderError = <<>> /\ renders = <<>>
  /\ downloaded = <<>> /\ clipboard = <<>>

\* the component is unmounted: its state is discarded, and a renderPreview
\* call still in flight finds mountedRef.current false
EditorUnmount ==
  /\ activeTab' = "tailored" /\ previewHtml' = <<>> /\ isRendering' = FALSE
  /\ renderError' = <<>> /\ renders' = <<>>
  /\ downloaded' = <<>> /\ clipboard' = <<>>

TailorReset ==
  /\ jobDescription' = <<>> /\ jobUrl' = <<>>
  /\ isProcessing' = FALSE /\ progress' = 0
  /\ extractedSkills' = <<>> /\ tailoredContent' = <<>>
  /\ showEditor' = FALSE
  /\ tpc' = "idle" /\ run' = <<>>
  /\ listResp' = NoCall /\ chosenModelName' = <<>>

Init ==
  /\ storage = EmptyStorage
  /\ persistEnabled = MountState(EmptyStorage).persistEnabled
  /\ lastSavedResume = MountState(EmptyStorage).lastSavedResume
  /\ resumeFile = MountState(EmptyStorage).resumeFile
  /\ originalContent = MountState(EmptyStorage).originalContent
  /\ encryptedApiKey = MountState(EmptyStorage).encryptedApiKey
  /\ apiKey = MountState(EmptyStorage).apiKey
  /\ isApiUnlocked = MountState(EmptyStorage).isApiUnlocked
  /\ passphrase = MountState(EmptyStorage).passphrase
  /\ pending = {}
  /\ rng = 0
  /\ encLog = <<>>
  /\ alertMsg = <<>>
  /\ event = "mount"
  /\ subtle \in BOOLEAN
  /\ VaultIdle
  /\ TailorIdle
  /\ EditorClosed

(***************************************************************************)
(* The page is loaded again: every asynchronous operation of the old page  *)
(* is gone, local storage is kept.                                         *)
(***************************************************************************)
Reload ==
  /\ Mounted(storage)
  /\ pending' = {}
  /\ alertMsg' = <<>>
  /\ event' = "mount"
  /\ TailorReset
  /\ EditorUnmount
  /\ UNCHANGED <<storage, rng, encLog, vaultVars, subtle>>

(***************************************************************************)
(* Inputs api-key and api-pass                                             *)
(***************************************************************************)
SetApiKey(k) ==
  /\ k # apiKey
  /\ apiKey' = k
  /\ alertMsg' = <<>>
  /\ event' = "setApiKey"
  /\ UNCHANGED <<storage, persistEnabled, encryptedApiKey, passphrase,
                 isApiUnlocked, resumeFile, lastSavedResume, originalContent,
                 pending, rng, encLog, vaultVars, uiVars, subtle>>

SetPassphrase(p) ==
  /\ p # passphrase
  /\ passphrase' = p
  /\ alertMsg' = <<>>
  /\ event' = "setPassphrase"
  /\ UNCHANGED <<storage, persistEnabled, encryptedApiKey, apiKey,
                 isApiUnlocked, resumeFile, lastSavedResume, originalContent,
                 pending, rng, encLog, vaultVars, uiVars, subtle>>

(***************************************************************************)
(* Asynchronous operations in flight                                       *)
(***************************************************************************)
EncOp(kind, enc) == [NoOp EXCEPT !.kind = kind, !.enc = <<enc>>]

UnlockOp(res) == [NoOp EXCEPT !.kind = "unlock", !.res = res]

ReadOp(file, persist) ==
  [NoOp EXCEPT !.kind = "read", !.file = <<file>>, !.persist = persist]

\* encryptText rejected: crypto.subtle is undefined, importKey throws
EncFailedOp(kind) == [NoOp EXCEPT !.kind = kind, !.res = Thrown(ErrType)]

\* the promise of encryptText(plain, password) called by the handler kind
EncryptCall(kind, plain, password) ==
  IF subtle THEN EncOp(kind, encryptText(plain, password, rng))
  ELSE EncFailedOp(kind)

\* salt and iv of that call: those of the payload when one is returned
EncryptLog(plain, password) ==
  IF subtle THEN LogEntry(encryptText(plain, password, rng)) ELSE Draws(rng)

\* the promise of decryptText(encrypted, password)
DecryptCall(encrypted, password) ==
  LET r == decryptText(encrypted, password)
  IN  IF subtle \/ r.err \in {ErrInvalidPayload, ErrAtob} THEN UnlockOp(r)
      ELSE UnlockOp(Thrown(ErrType))

CanStart == Cardinality(pending) < MaxPending

CanEncrypt == CanStart /\ rng < 2 * MaxEncrypts

keyFrame == <<resumeFile, lastSavedResume, originalContent, persistEnabled,
              vaultVars, uiVars, subtle>>

(***************************************************************************)
(* Buttons shown while no encrypted key is held (!encryptedApiKey)         *)
(***************************************************************************)
EncryptSaveClick ==
  /\ encryptedApiKey = <<>>
  /\ event' = "encryptSaveClick"
  /\ \/ /\ apiKey = <<>>
        /\ alertMsg' = <<"Enter your API key first", "">>
        /\ UNCHANGED <<pending, rng, encLog>>
     \/ /\ apiKey # <<>> /\ passphrase = <<>>
        /\ alertMsg' = <<"Enter a passphrase to encrypt the key", "">>
        /\ UNCHANGED <<pending, rng, encLog>>
     \/ /\ apiKey # <<>> /\ passphrase # <<>> /\ CanEncrypt
        /\ pending' = pending \cup {EncryptCall("encryptSave", apiKey, passphrase)}
        /\ encLog' = Append(encLog, EncryptLog(apiKey, passphrase))
        /\ rng' = rng + 2
        /\ alertMsg' = <<>>
  /\ UNCHANGED <<storage, apiKey, encryptedApiKey, passphrase, isApiUnlocked,
                 keyFrame>>

\* mutant: saving locks the key and asks for it again
EncryptSaveResolve_Relock(op) ==
  /\ op \in pending /\ op.kind = "encryptSave"
  /\ pending' = pending \ {op}
  /\ \/ /\ op.enc # <<>>
        /\ storage' = [storage EXCEPT !.enc = op.enc]
        /\ encryptedApiKey' = op.enc
        /\ isApiUnlocked' = FALSE
        /\ apiKey' = <<>>
        /\ alertMsg' = <<"API key encrypted and saved locally", "">>
        /\ event' = "encryptSaveDone"
     \/ /\ alertMsg' = <<"Failed to encrypt and save key: ",
                         IF op.enc # <<>> THEN ErrQuota ELSE op.res.err>>
        /\ event' = "encryptSaveFailed"
        /\ UNCHANGED <<storage, encryptedApiKey, isApiUnlocked, apiKey>>
  /\ UNCHANGED <<passphrase, rng, encLog, keyFrame>>

\* mutant: the key itself is stored, base64 encoded
EncryptSaveResolve_StoresKey(op) ==
  /\ op \in pending /\ op.kind = "encryptSave"
  /\ pending' = pending \ {op}
  /\ \/ /\ op.enc # <<>>
        /\ storage' = [storage EXCEPT
                         !.enc = <<[op.enc[1] EXCEPT
                                      !.data = toBase64(encode(apiKey))]>>]
        /\ encryptedApiKey' = op.enc
        /\ isApiUnlocked' = TRUE
        /\ alertMsg' = <<"API key encrypted and saved locally", "">>
        /\ event' = "encryptSaveDone"
     \/ /\ alertMsg' = <<"Failed to encrypt and save key: ",
                         IF op.enc # <<>> THEN ErrQuota ELSE op.res.err>>
        /\ event' = "encryptSaveFailed"
        /\ UNCHANGED <<storage, encryptedApiKey, isApiUnlocked>>
  /\ UNCHANGED <<apiKey, passphrase, rng, encLog, keyFrame>>

\* mutant: the catch block is empty
EncryptSaveResolve_SwallowsFailure(op) ==
  /\ op \in pending /\ op.kind = "encryptSave"
  /\ pending' = pending \ {op}
  /\ \/ /\ op.enc # <<>>
        /\ storage' = [storage EXCEPT !.enc = op.enc]
        /\ encryptedApiKey' = op.enc
        /\ isApiUnlocked' = TRUE
        /\ alertMsg' = <<"API key encrypted and saved locally", "">>
        /\ event' = "encryptSaveDone"
     \/ /\ alertMsg' = <<>>
        /\ event' = "encryptSaveFailed"
        /\ UNCHANGED <<storage, encryptedApiKey, isApiUnlocked>>
  /\ UNCHANGED <<apiKey, passphrase, rng, encLog, keyFrame>>

EncryptSaveResolve(op) ==
  /\ op \in pending /\ op.kind = "encryptSave"
  /\ pending' = pending \ {op}
  /\ \/ /\ op.enc # <<>>
        /\ storage' = [storage EXCEPT !.enc = op.enc]
        /\ encryptedApiKey' = op.enc
        /\ isApiUnlocked' = TRUE
        /\ alertMsg' = <<"API key encrypted and saved locally", "">>
        /\ event' = "encryptSaveDone"
     \/ /\ alertMsg' = <<"Failed to encrypt and save key: ",
                         IF op.enc # <<>> THEN ErrQuota ELSE op.res.err>>
        /\ event' = "encryptSaveFailed"
        /\ UNCHANGED <<storage, encryptedApiKey, isApiUnlocked>>
  /\ UNCHANGED <<apiKey, passphrase, rng, encLog, keyFrame>>

ClearKey ==
  /\ encryptedApiKey = <<>>
  /\ apiKey' = <<>>
  /\ alertMsg' = <<>>
  /\ event' = "clearKey"
  /\ UNCHANGED <<storage, encryptedApiKey, passphrase, isApiUnlocked, pending,
                 rng, encLog, keyFrame>>

(***************************************************************************)
(* Buttons shown while an encrypted key is held and locked                 *)
(***************************************************************************)
UnlockClick ==
  /\ encryptedApiKey # <<>> /\ ~ isApiUnlocked
  /\ event' = "unlockClick"
  /\ \/ /\ passphrase = <<>>
        /\ alertMsg' = <<"Enter your passphrase to unlock", "">>
        /\ UNCHANGED pending
     \/ /\ passphrase # <<>> /\ CanStart
        /\ pending' = pending \cup {DecryptCall(encryptedApiKey[1], passphrase)}
        /\ alertMsg' = <<>>
  /\ UNCHANGED <<storage, apiKey, encryptedApiKey, passphrase, isApiUnlocked,
                 rng, encLog, keyFrame>>

\* mutant: a failed unlock discards the stored payload
UnlockResolve_DropsOnFailure(op) ==
  /\ op \in pending /\ op.kind = "unlock"
  /\ pending' = pending \ {op}
  /\ \/ /\ op.res.ok
        /\ apiKey' = op.res.text
        /\ isApiUnlocked' = TRUE
        /\ alertMsg' = <<>>
        /\ event' = "unlockDone"
        /\ UNCHANGED <<storage, encryptedApiKey>>
     \/ /\ ~ op.res.ok
        /\ alertMsg' = <<"Failed to decrypt key: ", op.res.err>>
        /\ event' = "unlockFailed"
        /\ storage' = [storage EXCEPT !.enc = <<>>]
        /\ encryptedApiKey' = <<>>
        /\ UNCHANGED <<apiKey, isApiUnlocked>>
  /\ UNCHANGED <<passphrase, rng, encLog, keyFrame>>

UnlockResolve(op) ==
  /\ op \in pending /\ op.kind = "unlock"
  /\ pending' = pending \ {op}
  /\ \/ /\ op.res.ok
        /\ apiKey' = op.res.text
        /\ isApiUnlocked' = TRUE
        /\ alertMsg' = <<>>
        /\ event' = "unlockDone"
     \/ /\ ~ op.res.ok
        /\ alertMsg' = <<"Failed to decrypt key: ", op.res.err>>
        /\ event' = "unlockFailed"
        /\ UNCHANGED <<apiKey, isApiUnlocked>>
  /\ UNCHANGED <<storage, encryptedApiKey, passphrase, rng, encLog, keyFrame>>

\* mutant: the stored payload is not removed
ClearEncrypted_KeepsStored(name) ==
  /\ encryptedApiKey' = <<>>
  /\ isApiUnlocked' = FALSE
  /\ apiKey' = <<>>
  /\ alertMsg' = <<>>
  /\ event' = name
  /\ UNCHANGED <<storage, passphrase, pending, rng, encLog, keyFrame>>

ClearEncrypted(name) ==
  /\ storage' = [storage EXCEPT !.enc = <<>>]
  /\ encryptedApiKey' = <<>>
  /\ isApiUnlocked' = FALSE
  /\ apiKey' = <<>>
  /\ alertMsg' = <<>>
  /\ event' = name
  /\ UNCHANGED <<passphrase, pending, rng, encLog, keyFrame>>

ClearEncryptedKeyLocked ==
  /\ encryptedApiKey # <<>> /\ ~ isApiUnlocked
  /\ ClearEncrypted("clearLocked")

(***************************************************************************)
(* Buttons shown while an encrypted key is held and unlocked               *)
(***************************************************************************)
SaveEncryptedClick ==
  /\ encryptedApiKey # <<>> /\ isApiUnlocked
  /\ event' = "saveEncryptedClick"
  /\ \/ /\ passphrase = <<>>
        /\ alertMsg' = <<"Enter your passphrase to re-encrypt", "">>
        /\ UNCHANGED <<pending, rng, encLog>>
     \/ /\ passphrase # <<>> /\ CanEncrypt
        /\ pending' = pending
                         \cup {EncryptCall("saveEncrypted", apiKey, passphrase)}
        /\ encLog' = Append(encLog, EncryptLog(apiKey, passphrase))
        /\ rng' = rng + 2
        /\ alertMsg' = <<>>
  /\ UNCHANGED <<storage, apiKey, encryptedApiKey, passphrase, isApiUnlocked,
                 keyFrame>>

SaveEncryptedResolve(op) ==
  /\ op \in pending /\ op.kind = "saveEncrypted"
  /\ pending' = pending \ {op}
  /\ \/ /\ op.enc # <<>>
        /\ storage' = [storage EXCEPT !.enc = op.enc]
        /\ encryptedApiKey' = op.enc
        /\ alertMsg' = <<"API key saved", "">>
        /\ event' = "saveEncryptedDone"
     \/ /\ alertMsg' = <<"Failed to encrypt key: ",
                         IF op.enc # <<>> THEN ErrQuota ELSE op.res.err>>
        /\ event' = "saveEncryptedFailed"
        /\ UNCHANGED <<storage, encryptedApiKey>>
  /\ UNCHANGED <<apiKey, passphrase, isApiUnlocked, rng, encLog, keyFrame>>

ClearEncryptedKeyUnlocked ==
  /\ encryptedApiKey # <<>> /\ isApiUnlocked
  /\ ClearEncrypted("clearUnlocked")

(***************************************************************************)
(* persist-toggle onChange                                                 *)
(***************************************************************************)
TogglePersist ==
  LET v == ~ persistEnabled
  IN  /\ persistEnabled' = v
      /\ \/ /\ storage' = IF v THEN [storage EXCEPT !.persistence = "1"]
                          ELSE [storage EXCEPT !.persistence = "0",
                                               !.resume = <<>>, !.enc = <<>>]
            /\ lastSavedResume' = IF v THEN lastSavedResume ELSE <<>>
         \/ UNCHANGED <<storage, lastSavedResume>>   \* setItem threw
      /\ alertMsg' = <<>>
      /\ event' = "togglePersist"
      /\ UNCHANGED <<apiKey, encryptedApiKey, passphrase, isApiUnlocked,
                     resumeFile, originalContent, pending, rng, encLog,
                     vaultVars, uiVars, subtle>>

(***************************************************************************)
(* The generative-AI provider as handleTailorResume sees it.  A model of   *)
(* the listing carries a name and its supported methods; the listing is    *)
(* an array, an object with a models field, null, or a rejection, or the   *)
(* SDK has no listModels at all.                                           *)
(***************************************************************************)
MaxModels == 2

DefaultModel == "gemini-2.5-flash"

GeminiNames == {"models/gemini-1.5-pro"}

ModelNames == GeminiNames \cup {"models/text-bison-001"}

\* /gemini/i.test(name)
IsGemini(name) == name \in GeminiNames

Methods == {"generateContent", "generate", "embedContent"}

ListedModels ==
  {[name |-> n, supportedMethods |-> {m}] : n \in ModelNames, m \in Methods}

ModelLists == UNION {[1..n -> ListedModels] : n \in 0..MaxModels}

Listed(kind, models) == [NoCall EXCEPT !.kind = kind, !.models = models]

Text(t) == [NoCall EXCEPT !.kind = "text", !.text = t]

\* the promise rejects with an Error carrying a message
Rejected(e) == [NoCall EXCEPT !.kind = "rejected", !.err = e]

\* the promise rejects with a value that is not an Error
RejectedValue == [NoCall EXCEPT !.kind = "rejectedValue"]

ProviderErrors == {"API key not valid. Please pass a valid API key."}

Rejections == {Rejected(e) : e \in ProviderErrors} \cup {RejectedValue}

\* typeof genAI.listModels !== "function"
Unsupported == Listed("unsupported", <<>>)

ListOutcomes ==
  {Listed(k, ms) : k \in {"array", "models"}, ms \in ModelLists}
    \cup {Listed("null", <<>>)} \cup Rejections

\* Array.prototype.find: the first element of arr among those at the
\* indices I, which satisfy the callback, if any
FindFirst(arr, I) ==
  IF I = {} THEN <<>>
  ELSE <<arr[CHOOSE i \in I : \A j \in I : i <= j]>>

\* modelsArr, when it is an array
modelsArr(resp) ==
  IF resp.kind \in {"array", "models"} THEN <<resp.models>> ELSE <<>>

\* the value of chosenModelName at getGenerativeModel
chooseModel(resp) ==
  LET arr == modelsArr(resp)
  IN  IF arr = <<>> THEN DefaultModel
      ELSE IF Len(arr[1]) = 0 THEN DefaultModel
      ELSE
        LET found == FindFirst(arr[1], {i \in DOMAIN arr[1] :
                       /\ IsGemini(arr[1][i].name)
                       /\ \/ "generateContent" \in arr[1][i].supportedMethods
                          \/ "generate" \in arr[1][i].supportedMethods})
            anyGen == FindFirst(arr[1], {i \in DOMAIN arr[1] :
                        "generateContent" \in arr[1][i].supportedMethods})
        IN  IF found # <<>> THEN found[1].name
            ELSE IF anyGen # <<>> THEN anyGen[1].name
            ELSE DefaultModel

(***************************************************************************)
(* Texts of the provider.  Comma and Space are the code points; Fence is   *)
(* a markdown fence (three backticks, an optional "latex" and newline),    *)
(* BeginDocument a \begin{document} line with its preamble, EndDocument    *)
(* the \end{document} line, Unparsable a control sequence that latex.js    *)
(* rejects.                                                                *)
(***************************************************************************)
Comma == 44

Space == 32

Fence == 96

BeginDocument == 1

EndDocument == 2

Unparsable == 35

MaxSkills == 10

SkillsTexts == {<<74, Comma, Space, 75>>, <<Space>>}

TailoredTexts == {<<BeginDocument, 66>>, <<Fence, 66, Fence>>, <<Unparsable>>}

GenOutcomes(texts) == {Text(t) : t \in texts} \cup Rejections

RECURSIVE Split(_, _)
\* String.prototype.split(','), cur being the piece read so far
Split(t, cur) ==
  IF t = <<>> THEN <<cur>>
  ELSE IF Head(t) = Comma THEN <<cur>> \o Split(Tail(t), <<>>)
  ELSE Split(Tail(t), Append(cur, Head(t)))

RECURSIVE TrimStart(_)
TrimStart(t) ==
  IF t # <<>> /\ Head(t) = Space THEN TrimStart(Tail(t)) ELSE t

RECURSIVE TrimEnd(_)
TrimEnd(t) ==
  IF t # <<>> /\ t[Len(t)] = Space THEN TrimEnd(SubSeq(t, 1, Len(t) - 1))
  ELSE t

\* String.prototype.trim
Trim(t) == TrimEnd(TrimStart(t))

\* skillsText.split(',').map(trim).filter(nonempty).slice(0, 10)
parseSkills(t) ==
  LET parts == Split(t, <<>>)
      trimmed == [i \in DOMAIN parts |-> Trim(parts[i])]
      kept == SelectSeq(trimmed, LAMBDA x : x # <<>>)
  IN  SubSeq(kept, 1, IF Len(kept) < MaxSkills THEN Len(kept) ELSE MaxSkills)

\* the clean-up of the tailored text: trimmed, and every fence removed when
\* the text starts with one
cleanTex(t) ==
  LET c == Trim(t)
  IN  IF c # <<>> /\ Head(c) = Fence THEN SelectSeq(c, LAMBDA x : x # Fence)
      ELSE c

(***************************************************************************)
(* ResumeEditor: renderPreview.  An attempt is in flight from its call to  *)
(* the end of its finally block; it holds the document it renders and the  *)
(* settlement of import("latex.js").                                       *)
(***************************************************************************)
MaxRenders == 2

Tabs == {"tailored", "original"}

ErrCannotFindModule == "Cannot find module 'latex.js'"

ErrFetchModule == "Failed to fetch dynamically imported module"

ErrParse == "SyntaxError: unknown macro"

MissingDependency ==
  "Missing dependency 'latex.js'. Install with: pnpm add latex.js (or npm install latex.js)"

InstallHint == "pnpm add latex.js"

ImportOutcomes == {"ok", ErrCannotFindModule, ErrFetchModule}

\* /\\begin\{document\}/i.test(source)
hasBegin(source) == \E i \in DOMAIN source : source[i] = BeginDocument

\* toRender: a fragment is wrapped in a minimal document
wrap(source) ==
  IF hasBegin(source) THEN source
  ELSE <<BeginDocument>> \o source \o <<EndDocument>>

\* latex.parse accepts the document
parses(doc) == \A i \in DOMAIN doc : doc[i] # Unparsable

\* String(html) of the generator for a parsed document
outerHTML(doc) == [html |-> doc]

\* the message the catch block sets for an error message msg
renderErrorOf(msg) ==
  IF msg = ErrCannotFindModule THEN <<MissingDependency, "">>
  ELSE <<"Render error: ", msg>>

\* the error the attempt throws, "" when it throws none
thrownBy(att) ==
  IF att.import # "ok" THEN att.import
  ELSE IF parses(att.toRender) THEN ""
  ELSE ErrParse

\* source of the tab for the props texCode and originalTexCode
sourceOf(tab, texCode, originalTexCode) ==
  IF tab = "tailored" THEN texCode ELSE originalTexCode

\* the synchronous part of renderPreview, up to the await of the import
renderPreview(running, tab, texCode, originalTexCode) ==
  /\ Len(running) < MaxRenders
  /\ \E imp \in ImportOutcomes :
       renders' = Append(running,
                    [tab |-> tab,
                     toRender |-> wrap(sourceOf(tab, texCode, originalTexCode)),
                     import |-> imp])
  /\ isRendering' = TRUE
  /\ renderError' = <<>>
  /\ previewHtml' = <<>>

\* what the preview pane shows
PreviewPane ==
  IF renderError # <<>>
    THEN [shows |-> "error", message |-> renderError, hint |-> InstallHint]
  ELSE IF previewHtml # <<>>
    THEN [shows |-> "html", message |-> <<>>, hint |-> ""]
  ELSE [shows |-> "placeholder", message |-> <<>>, hint |-> ""]

RemoveAt(seq, i) == SubSeq(seq, 1, i - 1) \o SubSeq(seq, i + 1, Len(seq))

SetActiveTab(t) ==
  /\ showEditor /\ t # activeTab
  /\ activeTab' = t
  /\ renderPreview(renders, t, tailoredContent, originalContent)
  /\ UNCHANGED <<downloaded, clipboard>>
  /\ UNCHANGED <<storage, persistEnabled, apiKey, encryptedApiKey, passphrase,
                 isApiUnlocked, resumeFile, lastSavedResume, originalContent,
                 pending, rng, encLog, subtle, vaultVars, tailorVars>>
  /\ alertMsg' = <<>>
  /\ event' = "setActiveTab"

RenderClick ==
  /\ showEditor /\ ~ isRendering
  /\ renderPreview(renders, activeTab, tailoredContent, originalContent)
  /\ UNCHANGED <<activeTab, downloaded, clipboard>>
  /\ UNCHANGED <<storage, persistEnabled, apiKey, encryptedApiKey, passphrase,
                 isApiUnlocked, resumeFile, lastSavedResume, originalContent,
                 pending, rng, encLog, subtle, vaultVars, tailorVars>>
  /\ alertMsg' = <<>>
  /\ event' = "renderClick"

\* the rest of an attempt: try after the await, catch, finally
RenderResolve(i) ==
  /\ showEditor /\ i \in DOMAIN renders
  /\ renders' = RemoveAt(renders, i)
  /\ \/ /\ thrownBy(renders[i]) = ""
        /\ previewHtml' = <<outerHTML(renders[i].toRender)>>
        /\ event' = "renderDone"
        /\ UNCHANGED renderError
     \/ /\ thrownBy(renders[i]) # ""
        /\ renderError' = renderErrorOf(thrownBy(renders[i]))
        /\ event' = "renderFailed"
        /\ UNCHANGED previewHtml
  /\ isRendering' = FALSE
  /\ alertMsg' = <<>>
  /\ UNCHANGED <<activeTab, downloaded, clipboard>>
  /\ UNCHANGED <<storage, persistEnabled, apiKey, encryptedApiKey, passphrase,
                 isApiUnlocked, resumeFile, lastSavedResume, originalContent,
                 pending, rng, encLog, subtle, vaultVars, tailorVars>>

handleCopy ==
  /\ showEditor
  /\ clipboard' = <<tailoredContent>>
  /\ alertMsg' = <<>>
  /\ event' = "copy"
  /\ UNCHANGED <<activeTab, previewHtml, isRendering, renderError, renders,
                 downloaded>>
  /\ UNCHANGED <<storage, persistEnabled, apiKey, encryptedApiKey, passphrase,
                 isApiUnlocked, resumeFile, lastSavedResume, originalContent,
                 pending, rng, encLog, subtle, vaultVars, tailorVars>>

handleDownloadTex ==
  /\ showEditor
  /\ downloaded' = <<tailoredContent>>
  /\ alertMsg' = <<>>
  /\ event' = "download"
  /\ UNCHANGED <<activeTab, previewHtml, isRendering, renderError, renders,
                 clipboard>>
  /\ UNCHANGED <<storage, persistEnabled, apiKey, encryptedApiKey, passphrase,
                 isApiUnlocked, resumeFile, lastSavedResume, originalContent,
                 pending, rng, encLog, subtle, vaultVars, tailorVars>>

\* the effect of ResumeEditor after a commit of Home that changed
\* originalContent: renderPreview is a new callback and is called again
EditorPropsEffect ==
  IF showEditor /\ originalContent' # originalContent
    THEN /\ renderPreview(renders, activeTab, tailoredContent, originalContent')
         /\ UNCHANGED <<tailorVars, activeTab, downloaded, clipboard>>
    ELSE UNCHANGED uiVars

(***************************************************************************)
(* Home: the job inputs and handleTailorResume.  run holds the settlement  *)
(* of the generation call the handler awaited last; listResp and           *)
(* chosenModelName are the handler's locals.                               *)
(***************************************************************************)
JobDescriptions == {<<74>>}

JobUrls == {<<85>>}

GenericFailure ==
  "Failed to tailor resume. Please check your API key and try again."

tailorFrame == <<storage, persistEnabled, apiKey, encryptedApiKey, passphrase,
                 isApiUnlocked, resumeFile, lastSavedResume, originalContent,
                 pending, rng, encLog, subtle, vaultVars>>

SetJobDescription(d) ==
  /\ ~ showEditor /\ d # jobDescription
  /\ jobDescription' = d
  /\ alertMsg' = <<>>
  /\ event' = "setJobDescription"
  /\ UNCHANGED <<tailorFrame, jobUrl, isProcessing, progress, extractedSkills,
                 tailoredContent, showEditor, tpc, run, listResp,
                 chosenModelName, editorVars>>

SetJobUrl(u) ==
  /\ ~ showEditor /\ u # jobUrl
  /\ jobUrl' = u
  /\ alertMsg' = <<>>
  /\ event' = "setJobUrl"
  /\ UNCHANGED <<tailorFrame, jobDescription, isProcessing, progress,
                 extractedSkills, tailoredContent, showEditor, tpc, run,
                 listResp, chosenModelName, editorVars>>

\* the Tailor Resume button is rendered and not disabled
TailorEnabled ==
  /\ ~ showEditor /\ ~ isProcessing
  /\ resumeFile # <<>> \/ originalContent # <<>>
  /\ jobDescription # <<>> \/ jobUrl # <<>>

\* the alert of the guard that returns, "" when none does
Refusal ==
  IF jobDescription = <<>> /\ jobUrl = <<>>
    THEN "Please provide a job description or URL"
  ELSE IF ~ (resumeFile # <<>> \/ originalContent # <<>>)
    THEN "Please upload your resume"
  ELSE IF apiKey = <<>>
    THEN "Please provide your Gemini API key in Settings"
  ELSE ""

\* mutant: the run starts without an API key
TailorClick_NoKeyCheck(listable) ==
  /\ TailorEnabled
  /\ event' = "tailorClick"
  /\ alertMsg' = <<>>
  /\ isProcessing' = TRUE
  /\ run' = <<>>
  /\ IF listable
       THEN /\ progress' = 10
            /\ tpc' = "listing"
            /\ UNCHANGED <<listResp, chosenModelName>>
       ELSE /\ listResp' = Unsupported
            /\ chosenModelName' = <<chooseModel(Unsupported)>>
            /\ progress' = 20
            /\ tpc' = "skills"
  /\ UNCHANGED <<extractedSkills, tailoredContent, showEditor>>
  /\ UNCHANGED <<tailorFrame, jobDescription, jobUrl, editorVars>>

\* handleTailorResume up to its first await; listable: genAI.listModels is
\* a function
TailorClick(listable) ==
  /\ TailorEnabled
  /\ \/ /\ Refusal # ""
        /\ alertMsg' = <<Refusal, "">>
        /\ event' = "tailorRefused"
        /\ UNCHANGED <<isProcessing, progress, tpc, run, listResp,
                       chosenModelName>>
     \/ /\ Refusal = ""
        /\ event' = "tailorClick"
        /\ alertMsg' = <<>>
        /\ isProcessing' = TRUE
        /\ run' = <<>>
        /\ IF listable
             THEN /\ progress' = 10
                  /\ tpc' = "listing"
                  /\ UNCHANGED <<listResp, chosenModelName>>
             ELSE /\ listResp' = Unsupported
                  /\ chosenModelName' = <<chooseModel(Unsupported)>>
                  /\ progress' = 20
                  /\ tpc' = "skills"
  /\ UNCHANGED <<extractedSkills, tailoredContent, showEditor>>
  /\ UNCHANGED <<tailorFrame, jobDescription, jobUrl, editorVars>>

\* listModels has settled with resp: the model is chosen and the skills
\* call is made
ListResolve(resp) ==
  /\ tpc = "listing"
  /\ listResp' = resp
  /\ chosenModelName' = <<chooseModel(resp)>>
  /\ progress' = 20
  /\ tpc' = "skills"
  /\ UNCHANGED run
  /\ alertMsg' = <<>>
  /\ event' = "listDone"
  /\ UNCHANGED <<isProcessing, extractedSkills, tailoredContent, showEditor>>
  /\ UNCHANGED <<tailorFrame, jobDescription, jobUrl, editorVars>>

\* mutant: the catch block leaves the progress bar where it was
TailorCatch_KeepsProgress(o) ==
  /\ alertMsg' = <<"Error: ",
                   IF o.kind = "rejected" THEN o.err ELSE GenericFailure>>
  /\ isProcessing' = FALSE
  /\ tpc' = "idle"
  /\ listResp' = NoCall
  /\ chosenModelName' = <<>>
  /\ event' = "tailorFailed"
  /\ UNCHANGED <<progress, extractedSkills, tailoredContent, showEditor>>
  /\ UNCHANGED <<tailorFrame, jobDescription, jobUrl, editorVars>>

\* the catch block of handleTailorResume for the rejection o
TailorCatch(o) ==
  /\ alertMsg' = <<"Error: ",
                   IF o.kind = "rejected" THEN o.err ELSE GenericFailure>>
  /\ isProcessing' = FALSE
  /\ progress' = 0
  /\ tpc' = "idle"
  /\ listResp' = NoCall
  /\ chosenModelName' = <<>>
  /\ event' = "tailorFailed"
  /\ UNCHANGED <<extractedSkills, tailoredContent, showEditor>>
  /\ UNCHANGED <<tailorFrame, jobDescription, jobUrl, editorVars>>

\* the skills call has settled with o; listResp has gone out of scope
SkillsResolve(o) ==
  /\ tpc = "skills"
  /\ run' = <<o>>
  /\ \/ /\ o.kind = "text"
        /\ extractedSkills' = parseSkills(o.text)
        /\ progress' = 60
        /\ tpc' = "tailor"
        /\ listResp' = NoCall
        /\ alertMsg' = <<>>
        /\ event' = "skillsDone"
        /\ UNCHANGED <<isProcessing, tailoredContent, showEditor,
                       chosenModelName>>
        /\ UNCHANGED <<tailorFrame, jobDescription, jobUrl, editorVars>>
     \/ /\ o.kind # "text"
        /\ TailorCatch(o)

\* the tailoring call has settled with o; on success Home renders ResumeEditor,
\* whose effect calls renderPreview
TailorResolve(o) ==
  /\ tpc = "tailor"
  /\ run' = <<o>>
  /\ \/ /\ o.kind = "text"
        /\ tailoredContent' = cleanTex(o.text)
        /\ progress' = 100
        /\ isProcessing' = FALSE
        /\ showEditor' = TRUE
        /\ tpc' = "idle"
        /\ listResp' = NoCall
        /\ chosenModelName' = <<>>
        /\ alertMsg' = <<>>
        /\ event' = "tailorDone"
        /\ activeTab' = "tailored"
        /\ renderPreview(<<>>, "tailored", tailoredContent', originalContent)
        /\ UNCHANGED <<downloaded, clipboard>>
        /\ UNCHANGED <<extractedSkills, jobDescription, jobUrl>>
        /\ UNCHANGED tailorFrame
     \/ /\ o.kind # "text"
        /\ TailorCatch(o)

\* onBack
Back ==
  /\ showEditor
  /\ showEditor' = FALSE
  /\ EditorUnmount
  /\ alertMsg' = <<>>
  /\ event' = "back"
  /\ UNCHANGED <<jobDescription, jobUrl, isProcessing, progress,
                 extractedSkills, tailoredContent, tpc, run, listResp,
                 chosenModelName>>
  /\ UNCHANGED tailorFrame

(***************************************************************************)
(* Resume upload: handleFileUpload and the FileReader's onload, which      *)
(* sees the persistEnabled of the render the upload happened in.           *)
(***************************************************************************)
handleFileUpload(file) ==
  /\ CanStart
  /\ resumeFile' = <<file>>
  /\ pending' = pending \cup {ReadOp(file, persistEnabled)}
  /\ alertMsg' = <<>>
  /\ event' = "upload"
  /\ UNCHANGED <<storage, persistEnabled, apiKey, encryptedApiKey, passphrase,
                 isApiUnlocked, lastSavedResume, originalContent, rng, encLog,
                 vaultVars, uiVars, subtle>>

ReaderOnload(op) ==
  /\ op \in pending /\ op.kind = "read"
  /\ pending' = pending \ {op}
  /\ originalContent' = op.file[1].content
  /\ \/ /\ op.persist
        /\ storage' = [storage EXCEPT !.resume = op.file]
        /\ lastSavedResume' = op.file
     \/ /\ op.persist                                \* setItem threw
        /\ UNCHANGED <<storage, lastSavedResume>>
     \/ /\ ~ op.persist
        /\ UNCHANGED <<storage, lastSavedResume>>
  /\ alertMsg' = <<>>
  /\ event' = "onload"
  /\ EditorPropsEffect
  /\ UNCHANGED <<persistEnabled, apiKey, encryptedApiKey, passphrase,
                 isApiUnlocked, resumeFile, rng, encLog, vaultVars, subtle>>

UseSaved ==
  /\ lastSavedResume # <<>>
  /\ resumeFile' = lastSavedResume
  /\ originalContent' = lastSavedResume[1].content
  /\ alertMsg' = <<>>
  /\ event' = "useSaved"
  /\ UNCHANGED <<storage, persistEnabled, apiKey, encryptedApiKey, passphrase,
                 isApiUnlocked, lastSavedResume, pending, rng, encLog,
                 vaultVars, uiVars, subtle>>

clearLastSavedResume ==
  /\ lastSavedResume # <<>>
  /\ storage' = [storage EXCEPT !.resume = <<>>, !.enc = <<>>]
  /\ lastSavedResume' = <<>>
  /\ resumeFile' = <<>>
  /\ originalContent' = <<>>
  /\ alertMsg' = <<>>
  /\ event' = "clearLastSavedResume"
  /\ UNCHANGED <<persistEnabled, apiKey, encryptedApiKey, passphrase,
                 isApiUnlocked, pending, rng, encLog, vaultVars, uiVars, subtle>>

(***************************************************************************)
(* Specification of the API-key lifecycle: the key handlers, the           *)
(* persistence toggle and the reload of the page.                          *)
(***************************************************************************)
Next ==
  \/ Reload
  \/ \E k \in ApiKeys \cup {<<>>} : SetApiKey(k)
  \/ \E p \in Passphrases \cup {<<>>} : SetPassphrase(p)
  \/ EncryptSaveClick
  \/ \E op \in pending : EncryptSaveResolve(op)
  \/ ClearKey
  \/ UnlockClick
  \/ \E op \in pending : UnlockResolve(op)
  \/ ClearEncryptedKeyLocked
  \/ SaveEncryptedClick
  \/ \E op \in pending : SaveEncryptedResolve(op)
  \/ ClearEncryptedKeyUnlocked
  \/ TogglePersist

Spec == Init /\ [][Next]_vars

(***************************************************************************)
(* Specification of the Home component with the resume handlers            *)
(***************************************************************************)
ResumeNext ==
  \/ \E f \in Files : handleFileUpload(f)
  \/ \E op \in pending : ReaderOnload(op)
  \/ UseSaved
  \/ clearLastSavedResume

HomeNext == Next \/ ResumeNext

HomeSpec == Init /\ [][HomeNext]_vars

(***************************************************************************)
(* Specification of the resume persistence: upload, completion of the file *)
(* read, Use Saved, Clear, the persistence toggle and the reload           *)
(***************************************************************************)
ResumePersistNext ==
  \/ ResumeNext
  \/ TogglePersist
  \/ Reload

ResumeSpec == Init /\ [][ResumePersistNext]_vars

(***************************************************************************)
(* Specification of the saved data: a key is entered, encrypted and saved, *)
(* a resume is uploaded, used and cleared, and the page is reloaded        *)
(***************************************************************************)
SavedDataNext ==
  \/ \E k \in ApiKeys \cup {<<>>} : SetApiKey(k)
  \/ \E p \in Passphrases \cup {<<>>} : SetPassphrase(p)
  \/ EncryptSaveClick
  \/ \E op \in pending : EncryptSaveResolve(op)
  \/ ResumeNext
  \/ Reload

SavedDataSpec == Init /\ [][SavedDataNext]_vars

(***************************************************************************)
(* Specification of the tailoring run: the inputs of the run are entered,  *)
(* a resume is uploaded, Tailor Resume is pressed, the provider calls      *)
(* settle, the editor is left with Back, and the page is reloaded.         *)
(***************************************************************************)
ListSamples ==
  {Listed("array", <<[name |-> "models/text-bison-001",
                      supportedMethods |-> {"generateContent"}]>>)}
    \cup Rejections

ListSettles == \E resp \in ListSamples : ListResolve(resp)

SkillsSettles == \E o \in GenOutcomes(SkillsTexts) : SkillsResolve(o)

TailorSettles == \E o \in GenOutcomes(TailoredTexts) : TailorResolve(o)

TailorNext ==
  \/ Reload
  \/ \E k \in ApiKeys \cup {<<>>} : ~ showEditor /\ SetApiKey(k)
  \/ \E d \in JobDescriptions \cup {<<>>} : SetJobDescription(d)
  \/ \E u \in JobUrls \cup {<<>>} : SetJobUrl(u)
  \/ \E f \in Files : ~ showEditor /\ handleFileUpload(f)
  \/ \E op \in pending : ReaderOnload(op)
  \/ \E listable \in BOOLEAN : TailorClick(listable)
  \/ ListSettles
  \/ SkillsSettles
  \/ TailorSettles
  \/ Back

TailorSpec == Init /\ [][TailorNext]_vars

\* every provider call returns or fails: an awaited call settles
TailorFairSpec ==
  /\ TailorSpec
  /\ WF_vars(ListSettles) /\ WF_vars(SkillsSettles) /\ WF_vars(TailorSettles)

(***************************************************************************)
(* Specification of the model selection: a run is started with a key, a    *)
(* job URL and a resume, and listModels settles with every listing.        *)
(***************************************************************************)
SelectNext ==
  \/ ~ showEditor /\ SetApiKey(<<65>>)
  \/ \E u \in JobUrls : SetJobUrl(u)
  \/ \E f \in Files : ~ showEditor /\ handleFileUpload(f)
  \/ \E op \in pending : ReaderOnload(op)
  \/ \E listable \in BOOLEAN : TailorClick(listable)
  \/ \E resp \in ListOutcomes : ListResolve(resp)
  \/ SkillsSettles
  \/ TailorSettles
  \/ Back

SelectSpec == Init /\ [][SelectNext]_vars

(***************************************************************************)
(* Specification of the editor: a run without listing reaches the editor;  *)
(* in ResumeEditor the tabs, Render Preview, the settlement of the render  *)
(* attempts, Copy Code, Download .tex and Back.                            *)
(***************************************************************************)
EditorNext ==
  \/ ~ showEditor /\ SetApiKey(<<65>>)
  \/ \E u \in JobUrls : SetJobUrl(u)
  \/ \E f \in Files : ~ showEditor /\ handleFileUpload(f)
  \/ \E op \in pending : ReaderOnload(op)
  \/ TailorClick(FALSE)
  \/ \E o \in {Text(<<74>>)} : SkillsResolve(o)
  \/ \E o \in {Text(t) : t \in TailoredTexts} : TailorResolve(o)
  \/ Back
  \/ \E t \in Tabs : SetActiveTab(t)
  \/ RenderClick
  \/ \E i \in 1..MaxRenders : RenderResolve(i)
  \/ handleCopy
  \/ handleDownloadTex

EditorSpec == Init /\ [][EditorNext]_vars

(***************************************************************************)
(* Vault harness: encryptText is applied to a plaintext and a passphrase,  *)
(* one bit of the decoded salt, iv or data of the payload may be flipped,  *)
(* and decryptText is applied with a passphrase.                           *)
(***************************************************************************)
VaultDraws == {0, 200}

TamperBits == {0, 7}

Pow2(n) == IF n = 0 THEN 1 ELSE 128

FlipBit(b, bit) ==
  IF (b \div Pow2(bit)) % 2 = 1 THEN b - Pow2(bit) ELSE b + Pow2(bit)

FlipAt(b64, i, bit) ==
  LET bytes == fromBase64(b64).bytes
  IN  toBase64([bytes EXCEPT ![i] = FlipBit(bytes[i], bit)])

TamperIdx(field) ==
  IF vpc # "encrypted" THEN {}
  ELSE 1..Len(fromBase64(vPayload[1][field]).bytes)

VEncrypt(plain, password, k) ==
  /\ subtle
  /\ vpc = "idle"
  /\ vPlain' = plain
  /\ vPass' = password
  /\ vPayload' = <<encryptText(plain, password, k)>>
  /\ vpc' = "encrypted"
  /\ UNCHANGED <<vTry, vOut, vField, vSalt, vKey, homeVars, uiVars>>

VTamper(field, i, bit) ==
  /\ vpc = "encrypted"
  /\ i \in TamperIdx(field)
  /\ vPayload' = <<[vPayload[1] EXCEPT ![field] = FlipAt(@, i, bit)]>>
  /\ vField' = field
  /\ vpc' = "tampered"
  /\ UNCHANGED <<vPlain, vPass, vTry, vOut, vSalt, vKey, homeVars, uiVars>>

\* the property field is deleted (mode "absent") or set to "" (mode "empty")
VDrop(field, mode) ==
  /\ vpc \in {"encrypted", "malformed", "corrupted"}
  /\ field \in DOMAIN vPayload[1]
  /\ vPayload' = <<IF mode = "absent"
                   THEN [f \in DOMAIN vPayload[1] \ {field} |-> vPayload[1][f]]
                   ELSE [vPayload[1] EXCEPT ![field] = <<>>]>>
  /\ vField' = field
  /\ vpc' = "malformed"
  /\ UNCHANGED <<vPlain, vPass, vTry, vOut, vSalt, vKey, homeVars, uiVars>>

\* the i-th character of the property field becomes one outside base64
VCorrupt(field, i) ==
  /\ vpc \in {"encrypted", "corrupted"}
  /\ i \in DOMAIN vPayload[1][field]
  /\ vPayload[1][field][i] # BadSym
  /\ vPayload' = <<[vPayload[1] EXCEPT ![field] = [@ EXCEPT ![i] = BadSym]]>>
  /\ vField' = field
  /\ vpc' = "corrupted"
  /\ UNCHANGED <<vPlain, vPass, vTry, vOut, vSalt, vKey, homeVars, uiVars>>

\* deriveKey(password, salt) for a salt of n bytes
VDerive(password, n) ==
  /\ subtle
  /\ vpc = "idle"
  /\ vPass' = password
  /\ vSalt' = getRandomValues(0, n)
  /\ vKey' = <<deriveKey(password, getRandomValues(0, n))>>
  /\ vpc' = "derived"
  /\ UNCHANGED <<vPlain, vPayload, vTry, vOut, vField, homeVars, uiVars>>

VDecrypt(password) ==
  /\ vpc \in {"encrypted", "tampered", "malformed", "corrupted"}
  /\ vTry' = password
  /\ vOut' = <<decryptText(vPayload[1], password)>>
  /\ vpc' = "done"
  /\ UNCHANGED <<vPlain, vPass, vPayload, vField, vSalt, vKey, homeVars, uiVars>>

VaultNext ==
  \/ \E plain \in Plaintexts, password \in Passphrases, k \in VaultDraws :
       VEncrypt(plain, password, k)
  \/ \E field \in {"salt", "iv", "data"}, bit \in TamperBits :
       \E i \in TamperIdx(field) : VTamper(field, i, bit)
  \/ \E password \in Passphrases : VDecrypt(password)

VaultSpec == Init /\ [][VaultNext]_vars

(***************************************************************************)
(* Vault harness for malformed input: a property of the payload is         *)
(* deleted, emptied or made invalid base64 before decryptText is applied,  *)
(* and deriveKey is applied to salts of several lengths.                   *)
(***************************************************************************)
SaltLens == {0, SaltLen - 1, SaltLen, SaltLen + 1}

MalformedNext ==
  \/ \E plain \in Plaintexts, password \in Passphrases, k \in VaultDraws :
       VEncrypt(plain, password, k)
  \/ \E field \in {"salt", "iv", "data"}, mode \in {"absent", "empty"} :
       VDrop(field, mode)
  \/ \E field \in {"salt", "iv", "data"}, i \in {1, 2} : VCorrupt(field, i)
  \/ \E password \in Passphrases, n \in SaltLens : VDerive(password, n)
  \/ \E password \in Passphrases : VDecrypt(password)

MalformedSpec == Init /\ [][MalformedNext]_vars

(***************************************************************************)
(* Definitions used to state the properties                                *)
(***************************************************************************)
Range(f) == {f[i] : i \in DOMAIN f}

EncryptedLocked == encryptedApiKey # <<>> /\ ~ isApiUnlocked

Unlocked == encryptedApiKey # <<>> /\ isApiUnlocked

DrawIdx == {2 * j : j \in 0..(MaxEncrypts - 1)}

\* the inputs of the encryptText calls that return the payload enc
Origins(enc) ==
  {t \in (ApiKeys \cup {<<>>}) \X Passphrases \X DrawIdx :
     /\ toBase64(getRandomValues(t[3], SaltLen)) = enc.salt
     /\ encryptText(t[1], t[2], t[3]) = enc}

VaultDecrypted == vpc = "done" /\ vOut # <<>>

(***************************************************************************)
(* C1: round trip.  For every plaintext P and passphrase p, decryptText    *)
(* applied with p to the payload encryptText(P, p) returns exactly P.      *)
(***************************************************************************)
C1_RoundTrip ==
  (VaultDecrypted /\ vField = "none" /\ vTry = vPass)
    => (vOut[1].ok /\ vOut[1].text = vPlain)

(***************************************************************************)
(* C2: wrong passphrase.  decryptText applied to encryptText(P, p1) with   *)
(* a passphrase p2 # p1 throws the authentication failure of AES-GCM       *)
(* (OperationError) and returns no plaintext.                              *)
(***************************************************************************)
C2_WrongPassphrase ==
  (VaultDecrypted /\ vField = "none" /\ vTry # vPass)
    => (~ vOut[1].ok /\ vOut[1].err = ErrOperation /\ vOut[1].text = <<>>)

C2_Witness ==
  /\ VaultDecrypted /\ vField = "none" /\ vTry # vPass
  /\ vPlain # <<>> /\ ~ vOut[1].ok

C4_FreshSaltIv ==
  /\ rng = 2 * Len(encLog)
  /\ \A i, j \in DOMAIN encLog :
       i # j => (encLog[i].salt # encLog[j].salt /\ encLog[i].iv # encLog[j].iv)

\* two Encrypt & Save calls of the same key under the same passphrase
C4_Witness ==
  /\ Len(encLog) >= 2
  /\ \E K \in ApiKeys, p \in Passphrases :
       {EncOp("encryptSave", encryptText(K, p, 0)),
        EncOp("encryptSave", encryptText(K, p, 2))} \subseteq pending

(***************************************************************************)
(* C5: on load, whenever local storage holds an encrypted payload, the     *)
(* controller starts in EncryptedLocked with that payload and an empty     *)
(* in-memory key, whatever the stored persistence flag.                    *)
(***************************************************************************)
C5_LoadStartsLocked ==
  (event = "mount" /\ storage.enc # <<>>)
    => (encryptedApiKey = storage.enc /\ ~ isApiUnlocked /\ apiKey = <<>>)

(***************************************************************************)
(* C6: unlock success.  Unlock of a locked payload with the passphrase it  *)
(* was encrypted under succeeds, and a successful unlock in                *)
(* EncryptedLocked ends in Unlocked with the in-memory key equal to the    *)
(* key K that was encrypted.                                               *)
(***************************************************************************)
C6_UnlockRestoresKey ==
  [][/\ (event' = "unlockClick" /\ passphrase # <<>> /\ CanStart)
          => \A t \in Origins(encryptedApiKey[1]) :
               passphrase = t[2]
                 => decryptText(encryptedApiKey[1], passphrase).ok
     /\ (event' = "unlockDone" /\ EncryptedLocked)
          => /\ isApiUnlocked' /\ encryptedApiKey' = encryptedApiKey
             /\ \A t \in Origins(encryptedApiKey[1]) : apiKey' = t[1]]_vars

(***************************************************************************)
(* C7: unlock failure.  Unlock with a passphrase other than the one of the *)
(* encryption fails; a failed unlock is reported by an alert and changes   *)
(* neither local storage, nor the in-memory payload, nor the in-memory     *)
(* key, nor the unlocked flag, so EncryptedLocked is kept and the Unlock   *)
(* button is offered again, whatever the number of attempts made before.   *)
(***************************************************************************)
C7_UnlockFailureKeepsLocked ==
  [][/\ (event' = "unlockClick" /\ passphrase # <<>> /\ CanStart)
          => \A t \in Origins(encryptedApiKey[1]) :
               passphrase # t[2]
                 => /\ ~ decryptText(encryptedApiKey[1], passphrase).ok
                    /\ UnlockOp(Thrown(ErrOperation)) \in pending'
     /\ event' = "unlockFailed"
          => /\ alertMsg' # <<>> /\ alertMsg'[1] = "Failed to decrypt key: "
             /\ storage' = storage
             /\ encryptedApiKey' = encryptedApiKey
             /\ apiKey' = apiKey
             /\ isApiUnlocked' = isApiUnlocked
             /\ EncryptedLocked => EncryptedLocked']_vars

C7_Witness ==
  /\ event = "unlockFailed" /\ EncryptedLocked
  /\ alertMsg = <<"Failed to decrypt key: ", ErrOperation>>
  /\ storage.enc = encryptedApiKey

C9_ClearEndsAbsent ==
  [][event' \in {"clearLocked", "clearUnlocked"}
       => /\ storage'.enc = <<>>
          /\ encryptedApiKey' = <<>>
          /\ apiKey' = <<>>
          /\ ~ isApiUnlocked'
          /\ MountState(storage').encryptedApiKey = <<>>]_vars

C9_Witness ==
  /\ event = "clearUnlocked" /\ rng > 0
  /\ storage.enc = <<>> /\ encryptedApiKey = <<>> /\ apiKey = <<>>
  /\ ~ isApiUnlocked

(***************************************************************************)
(* C10: local storage holds no key material other than payloads of         *)
(* encryptText.  The value under resume_wizard_api_key_enc is absent or is *)
(* a payload returned by an encryptText call, the other entries are the    *)
(* persistence flag and the saved resume, and after a load the in-memory   *)
(* key is empty until the user enters one or an unlock succeeds.           *)
(***************************************************************************)
C10_StorageHoldsOnlyCiphertext ==
  /\ [](/\ storage.persistence \in {"null", "0", "1"}
        /\ storage.resume \in {<<>>} \cup {<<f>> : f \in Files}
        /\ storage.enc # <<>>
             => /\ LogEntry(storage.enc[1]) \in Range(encLog)
                /\ Origins(storage.enc[1]) # {})
  /\ [][/\ storage'.enc # storage.enc
             => \/ storage'.enc = <<>>
                \/ \E op \in pending :
                     /\ op.kind \in {"encryptSave", "saveEncrypted"}
                     /\ storage'.enc = op.enc
        /\ event' = "mount" => (apiKey' = <<>> /\ ~ isApiUnlocked')
        /\ (apiKey' # apiKey /\ apiKey' # <<>>)
             => event' \in {"setApiKey", "unlockDone"}]_vars

C10_Witness ==
  /\ event = "mount" /\ EncryptedLocked /\ apiKey = <<>>
  /\ storage.enc = encryptedApiKey

(***************************************************************************)
(* C11: disabling persistence deletes every persisted artifact in the same *)
(* action.  After a step of the persistence toggle that switches it off,   *)
(* local storage holds neither the saved resume nor the encrypted key.     *)
(***************************************************************************)
C11_DisableDeletesArtifacts ==
  [][(event' = "togglePersist" /\ ~ persistEnabled')
       => (storage'.resume = <<>> /\ storage'.enc = <<>>)]_vars

(***************************************************************************)
(* C12: no key write while persistence is disabled.  When Encrypt & Save   *)
(* or Save Encrypted completes while the persistence flag is disabled,     *)
(* local storage holds no encrypted key afterwards.                        *)
(***************************************************************************)
C12_NoKeyWriteWhileDisabled ==
  [][(~ persistEnabled
      /\ event' \in {"encryptSaveDone", "encryptSaveFailed",
                     "saveEncryptedDone", "saveEncryptedFailed"})
       => storage'.enc = <<>>]_vars

(***************************************************************************)
(* C13: the uploaded resume is written only if persistence is enabled at   *)
(* the moment of the write.  Whenever the completion of a file read        *)
(* changes the saved resume in local storage, persistence is enabled, and  *)
(* that step leaves no saved resume in storage while it is disabled.       *)
(***************************************************************************)
C13_ResumeWriteOnlyWhileEnabled ==
  [][event' = "onload"
       => /\ storage'.resume # storage.resume => persistEnabled
          /\ (~ persistEnabled /\ storage.resume = <<>>)
               => storage'.resume = <<>>]_vars

(***************************************************************************)
(* C14: every failure of a vault operation is surfaced.  When the promise  *)
(* of encryptText (Encrypt & Save, Save Encrypted) or of decryptText       *)
(* (Unlock) is rejected, the handler's completion shows an alert that      *)
(* names the operation and carries the error, and it changes neither the   *)
(* stored payload, nor the in-memory payload, nor the in-memory key, nor   *)
(* the unlocked flag.                                                      *)
(***************************************************************************)
VaultFailed(op) ==
  \/ op.kind \in {"encryptSave", "saveEncrypted"} /\ op.enc = <<>>
  \/ op.kind = "unlock" /\ ~ op.res.ok

FailureAlert(op) ==
  <<IF op.kind = "encryptSave" THEN "Failed to encrypt and save key: "
    ELSE IF op.kind = "saveEncrypted" THEN "Failed to encrypt key: "
    ELSE "Failed to decrypt key: ",
    op.res.err>>

LifecycleUnchanged ==
  /\ storage'.enc = storage.enc
  /\ encryptedApiKey' = encryptedApiKey
  /\ apiKey' = apiKey
  /\ isApiUnlocked' = isApiUnlocked

C14_VaultFailuresSurfaced ==
  [][\A op \in pending \ pending' :
       (event' # "mount" /\ VaultFailed(op))
         => /\ op.res.err # ""
            /\ alertMsg' = FailureAlert(op)
            /\ LifecycleUnchanged]_vars

\* an encryption rejected in Encrypt & Save has been reported
C14_Witness ==
  /\ event = "encryptSaveFailed"
  /\ alertMsg = <<"Failed to encrypt and save key: ", ErrType>>
  /\ apiKey # <<>> /\ passphrase # <<>>
  /\ encryptedApiKey = <<>> /\ storage.enc = <<>> /\ ~ isApiUnlocked

(***************************************************************************)
(* C15: every local-storage error is caught and silently ignored.  When    *)
(* the write of Encrypt & Save or of Save Encrypted fails, or the flag     *)
(* write of the persistence toggle fails, no error is shown and the        *)
(* handler's in-memory state change takes place all the same: the payload  *)
(* returned by encryptText is held in memory (and, for Encrypt & Save, the *)
(* unlocked flag is set), the toggle takes its new value and, switched     *)
(* off, forgets the saved resume.                                          *)
(***************************************************************************)
C15_StorageErrorsIgnored ==
  [][/\ \A op \in pending \ pending' :
          (event' # "mount" /\ op.kind \in {"encryptSave", "saveEncrypted"}
           /\ op.enc # <<>>)
            => /\ alertMsg' = <<>> \/ alertMsg'[2] = ""
               /\ encryptedApiKey' = op.enc
               /\ op.kind = "encryptSave" => isApiUnlocked'
     /\ event' = "togglePersist"
          => /\ alertMsg' = <<>>
             /\ persistEnabled' = ~ persistEnabled
             /\ ~ persistEnabled' => lastSavedResume' = <<>>]_vars

(***************************************************************************)
(* C16: malformed payload, missing fields.  decryptText applied to a       *)
(* payload whose salt, iv or data property is absent or the empty string   *)
(* throws 'Invalid encrypted payload' for every passphrase, whatever the   *)
(* other properties hold (valid base64 or not): the check precedes the     *)
(* decoding, the key derivation and the decryption.                        *)
(***************************************************************************)
PayloadFields == {"salt", "iv", "data"}

C16_MissingFieldInvalidPayload ==
  (VaultDecrypted /\ \E f \in PayloadFields : Missing(vPayload[1], f))
    => vOut[1] = Thrown(ErrInvalidPayload)

\* iv deleted and salt not base64: the failure is that of the field check
C16_Witness ==
  /\ VaultDecrypted
  /\ "iv" \notin DOMAIN vPayload[1]
  /\ "salt" \in DOMAIN vPayload[1] /\ vPayload[1]["salt"] # <<>>
  /\ ~ fromBase64(vPayload[1]["salt"]).ok
  /\ vOut[1] = Thrown(ErrInvalidPayload)

(***************************************************************************)
(* C17: malformed payload, bad encoding.  decryptText applied to a payload *)
(* whose salt, iv and data properties are present and of which one is not  *)
(* valid base64 throws 'Invalid encrypted payload' and no other error.     *)
(***************************************************************************)
C17_BadBase64InvalidPayload ==
  (/\ VaultDecrypted
   /\ \A f \in PayloadFields : ~ Missing(vPayload[1], f)
   /\ \E f \in PayloadFields : ~ fromBase64(vPayload[1][f]).ok)
    => vOut[1] = Thrown(ErrInvalidPayload)

(***************************************************************************)
(* C18: deriveKey rejects a salt whose length is not 16 bytes: called with *)
(* such a salt it derives no key (InvalidSaltLength), and called with a    *)
(* salt of 16 bytes it derives the key.                                    *)
(***************************************************************************)
C18_InvalidSaltLength ==
  vpc = "derived"
    => IF Len(vSalt) = SaltLen THEN vKey # <<>> ELSE vKey = <<>>

(***************************************************************************)
(* C19: re-encrypt in Unlocked.  Save Encrypted calls encryptText on the   *)
(* in-memory key and the passphrase with a salt and an iv not used before; *)
(* when it completes, its payload is the one in local storage and in       *)
(* memory, the controller is in Unlocked, the in-memory key is unchanged,  *)
(* a reload loads that payload, and decryptText of it succeeds with the    *)
(* passphrase of the re-encryption and fails with every other one.         *)
(***************************************************************************)
C19_ReEncrypt ==
  [][/\ (event' = "saveEncryptedClick" /\ passphrase # <<>> /\ CanEncrypt
         /\ subtle)
          => /\ EncOp("saveEncrypted", encryptText(apiKey, passphrase, rng))
                  \in pending'
             /\ Draws(rng) \notin Range(encLog)
     /\ event' = "saveEncryptedDone"
          => /\ \E op \in pending \ pending' :
                  /\ op.kind = "saveEncrypted"
                  /\ storage'.enc = op.enc /\ encryptedApiKey' = op.enc
             /\ Unlocked'
             /\ apiKey' = apiKey
             /\ MountState(storage').encryptedApiKey = storage'.enc
             /\ \A t \in Origins(storage'.enc[1]) :
                  \A p \in Passphrases :
                    decryptText(storage'.enc[1], p).ok <=> p = t[2]]_vars

(***************************************************************************)
(* C20: frame of the key lifecycle.  The stored payload, the in-memory     *)
(* payload, the in-memory key and the unlocked flag change only in a step  *)
(* of one of the key actions (enter key, Encrypt & Save, Save Encrypted,   *)
(* Unlock, Clear Key, Clear Encrypted Key) or in the load of the page;     *)
(* file upload, completion of the file read, Use Saved, resume Clear and   *)
(* the persistence toggle leave them unchanged.                            *)
(***************************************************************************)
KeyEvents ==
  {"mount", "setApiKey", "encryptSaveClick", "encryptSaveDone",
   "encryptSaveFailed", "clearKey", "unlockClick", "unlockDone",
   "unlockFailed", "clearLocked", "clearUnlocked", "saveEncryptedClick",
   "saveEncryptedDone", "saveEncryptedFailed"}

C20_KeyLifecycleFrame ==
  [][event' \notin KeyEvents => LifecycleUnchanged]_vars

(***************************************************************************)
(* C21: vault operations never overlap.  At most one encryptText or        *)
(* decryptText call started by a button is in flight; and in a step that   *)
(* completes none of the calls in flight, no call is started and the       *)
(* stored payload, the in-memory payload, the in-memory key and the        *)
(* unlocked flag are unchanged.                                            *)
(***************************************************************************)
VaultOps ==
  {op \in pending : op.kind \in {"encryptSave", "saveEncrypted", "unlock"}}

C21_VaultOpsNeverOverlap ==
  [][/\ Cardinality(VaultOps') <= 1
     /\ (VaultOps # {} /\ VaultOps \subseteq VaultOps')
          => VaultOps' = VaultOps /\ LifecycleUnchanged]_vars

(***************************************************************************)
(* C22: whenever an encrypted payload is held in memory, local storage     *)
(* holds that same payload under resume_wizard_api_key_enc; and in         *)
(* Unlocked the in-memory key is not empty.                                *)
(***************************************************************************)
C22_MemoryPayloadIsStored ==
  /\ encryptedApiKey # <<>> => storage.enc = encryptedApiKey
  /\ Unlocked => apiKey # <<>>

(***************************************************************************)
(* C26: Clear wins over an unlock in flight.  When a decryptText call      *)
(* started by Unlock completes after Clear Encrypted Key has emptied the   *)
(* controller (no in-memory key, unlocked flag false, no payload in memory *)
(* or in storage), the controller is still in that state afterwards.       *)
(***************************************************************************)
Absent ==
  /\ apiKey = <<>> /\ ~ isApiUnlocked
  /\ encryptedApiKey = <<>> /\ storage.enc = <<>>

C26_ClearWinsOverUnlock ==
  [][(event' \in {"unlockDone", "unlockFailed"} /\ Absent) => Absent']_vars

(***************************************************************************)
(* C27: the resume Clear changes resume data only.  A step of              *)
(* clearLastSavedResume leaves the stored encrypted key, the in-memory     *)
(* payload, the in-memory key, the unlocked flag, the passphrase and the   *)
(* persistence flag as they were.                                          *)
(***************************************************************************)
C27_ResumeClearFrame ==
  [][event' = "clearLastSavedResume"
       => /\ LifecycleUnchanged
          /\ passphrase' = passphrase
          /\ persistEnabled' = persistEnabled
          /\ storage'.persistence = storage.persistence]_vars

(***************************************************************************)
(* C28: no save encrypts an empty key or uses an empty passphrase.  A      *)
(* click on Encrypt & Save or on Save Encrypted with the in-memory key or  *)
(* the passphrase empty calls encryptText not at all (no call in flight    *)
(* is added, no salt or iv is drawn) and leaves local storage unchanged.   *)
(***************************************************************************)
C28_EmptyKeyOrPassphraseRefused ==
  [][(/\ event' \in {"encryptSaveClick", "saveEncryptedClick"}
      /\ (apiKey = <<>> \/ passphrase = <<>>))
       => /\ pending' = pending
          /\ rng' = rng
          /\ storage' = storage]_vars

(***************************************************************************)
(* C24: model selection.  Once the model is chosen, it is the default      *)
(* identifier when listModels is no function, rejects, returns no list,    *)
(* an empty list or a list without a model that supports text generation;  *)
(* otherwise it is a listed model that supports text generation, and a     *)
(* Gemini one when the list has a Gemini model that supports it.           *)
(***************************************************************************)
TextGeneration == {"generateContent", "generate"}

SupportsGeneration(m) == m.supportedMethods \cap TextGeneration # {}

ListedNow ==
  IF listResp.kind \in {"array", "models"} THEN Range(listResp.models) ELSE {}

C24_ModelSelection ==
  (tpc = "skills" /\ chosenModelName # <<>>)
    => LET gen == {m \in ListedNow : SupportsGeneration(m)}
       IN  IF gen = {} THEN chosenModelName[1] = DefaultModel
           ELSE /\ \E m \in gen : m.name = chosenModelName[1]
                /\ (\E m \in gen : IsGemini(m.name))
                     => \E m \in gen : /\ IsGemini(m.name)
                                       /\ m.name = chosenModelName[1]

(***************************************************************************)
(* C25: a provider error in a generation call.  When the skills call or    *)
(* the tailoring call rejects with an error, the alert shows "Error: "     *)
(* followed by the message of that error, and the run ends with the        *)
(* processing flag false, the progress 0, the editor not shown and the     *)
(* tailored content as it was before.                                      *)
(***************************************************************************)
C25_ProviderErrorSurfaced ==
  [][event' = "tailorFailed"
       => /\ run'[1].kind = "rejected" => alertMsg' = <<"Error: ", run'[1].err>>
          /\ alertMsg' # <<>>
          /\ ~ isProcessing'
          /\ progress' = 0
          /\ ~ showEditor'
          /\ tailoredContent' = tailoredContent]_vars

\* a run has failed with a provider error after an earlier run had tailored
\* the resume
C25_Witness ==
  /\ event = "tailorFailed"
  /\ run[1] \in {Rejected(e) : e \in ProviderErrors}
  /\ alertMsg = <<"Error: ", run[1].err>>
  /\ tailoredContent # <<>>
  /\ progress = 0 /\ ~ isProcessing /\ ~ showEditor

(***************************************************************************)
(* C30: the tailoring run.  A run starts only with a job description or a  *)
(* URL, a resume, a non-empty in-memory key and no run in progress;        *)
(* every started run ends with the processing flag false, every provider   *)
(* call settling; and the editor is shown only after a run completed       *)
(* without error: the progress is 100, no run is in progress and the       *)
(* tailored content is the cleaned text the tailoring call returned.       *)
(***************************************************************************)
C30_TailoringRun ==
  /\ [][event' = "tailorClick"
          => /\ jobDescription # <<>> \/ jobUrl # <<>>
             /\ resumeFile # <<>> \/ originalContent # <<>>
             /\ apiKey # <<>>
             /\ ~ isProcessing /\ isProcessing']_vars
  /\ isProcessing ~> ~ isProcessing
  /\ [](showEditor
          => /\ progress = 100 /\ ~ isProcessing
             /\ run # <<>> /\ run[1].kind = "text"
             /\ tailoredContent = cleanTex(run[1].text))

\* a run has completed without error and the editor is shown
C30_Witness ==
  /\ event = "tailorDone" /\ showEditor
  /\ progress = 100 /\ ~ isProcessing
  /\ tailoredContent = cleanTex(run[1].text)

(***************************************************************************)
(* C23: the preview tolerates an unavailable renderer.  When the import    *)
(* or the run of latex.js fails, the attempt ends with the preview pane    *)
(* showing an error message and the installation hint, with no preview     *)
(* HTML and with the rendering flag false, the editor still shown; and     *)
(* Copy Code and Download .tex deliver the tailored source unmodified.     *)
(***************************************************************************)
C23_RendererFailureTolerated ==
  [][/\ event' = "renderFailed"
          => /\ PreviewPane'.shows = "error"
             /\ PreviewPane'.hint = InstallHint
             /\ renderError' # <<>>
             /\ previewHtml' = <<>>
             /\ ~ isRendering'
             /\ showEditor'
     /\ event' = "download" => downloaded' = <<tailoredContent>>
     /\ event' = "copy" => clipboard' = <<tailoredContent>>]_vars

(***************************************************************************)
(* C29: the preview is consistent.  In the editor previewHtml and          *)
(* renderError are never both set; and when no render attempt is in        *)
(* flight, the HTML or the error held is a result of rendering the         *)
(* source of the active tab.                                               *)
(***************************************************************************)
ActiveDocument == wrap(sourceOf(activeTab, tailoredContent, originalContent))

ResultErrors(doc) ==
  {renderErrorOf(e) : e \in (ImportOutcomes \ {"ok"})
                             \cup (IF parses(doc) THEN {} ELSE {ErrParse})}

C29_PreviewConsistent ==
  showEditor
    => /\ ~ (previewHtml # <<>> /\ renderError # <<>>)
       /\ renders = <<>>
            => /\ previewHtml # <<>>
                    => /\ parses(ActiveDocument)
                       /\ previewHtml = <<outerHTML(ActiveDocument)>>
               /\ renderError # <<>>
                    => renderError \in ResultErrors(ActiveDocument)

====
